---- MODULE Spec2Model ----
(***************************************************************************)
(* The Enso Finance bindings of skills/enso: fifteen asynchronous          *)
(* functions, each of which builds one request descriptor (url, headers,   *)
(* query parameters or JSON body), opens an httpx.AsyncClient, issues one  *)
(* request, and maps the result through its except clauses.                *)
(*                                                                         *)
(* Python values are tagged pairs <<type, payload>>.  Text is a TLA+       *)
(* string, except the addresses of get_tokens_info's underlying_tokens,    *)
(* which are sequences of characters so that ",".join can be followed      *)
(* character by character.                                                 *)
(***************************************************************************)
EXTENDS Integers, Sequences, FiniteSets, TLC

VARIABLES pc, call, request, flight, client, via, sent, outcome

vars == <<pc, call, request, flight, client, via, sent, outcome>>

(***************************************************************************)
(* Python values                                                           *)
(***************************************************************************)
None == <<"None", "None">>

PyInt(n) == <<"int", n>>

PyStr(s) == <<"str", s>>

PyBool(b) == <<"bool", b>>

PyList(l) == <<"list", l>>

\* bool(v): the truth value Python's `if v:` tests
Truthy(v) ==
    CASE v[1] = "None" -> FALSE
      [] v[1] = "int"  -> v[2] # 0
      [] v[1] = "bool" -> v[2]
      [] v[1] = "str"  -> Len(v[2]) # 0
      [] v[1] = "list" -> Len(v[2]) # 0

\* isinstance(v, t)
IsInstance(v, t) == v[1] = t

Digit == <<"0", "1", "2", "3", "4", "5", "6", "7", "8", "9">>

RECURSIVE IntToStr(_)
\* str(n) of a non-negative int
IntToStr(n) ==
    IF n < 10 THEN Digit[n + 1]
    ELSE IntToStr(n \div 10) \o Digit[(n % 10) + 1]

\* str(v), as an f-string's {v} formats it
Format(v) ==
    CASE v[1] = "None" -> "None"
      [] v[1] = "int"  -> IntToStr(v[2])
      [] v[1] = "bool" -> IF v[2] THEN "True" ELSE "False"
      [] v[1] = "str"  -> v[2]

\* d[k] = v on a dict
SetItem(d, k, v) == [x \in DOMAIN d \cup {k} |-> IF x = k THEN v ELSE d[x]]

\* the empty dict {}
EmptyDict == [x \in {} |-> None]

RECURSIVE JoinTrailing(_, _)
\* Join as a loop that appends the separator after every element would do it
JoinTrailing(sep, l) ==
    IF Len(l) = 0 THEN <<>>
    ELSE l[1] \o sep \o JoinTrailing(sep, Tail(l))

RECURSIVE Join(_, _)
\* sep.join(l) on a list of character sequences
Join(sep, l) ==
    IF Len(l) = 0 THEN <<>>
    ELSE IF Len(l) = 1 THEN l[1]
    ELSE l[1] \o sep \o Join(sep, Tail(l))

(***************************************************************************)
(* The request descriptor each binding builds                              *)
(***************************************************************************)
\* the module-level base url the bindings import
base_url == "{base_url}"

\* Headers as a binding that forgot the Authorization entry would build them
HeadersNoAuth(api_token) == ("accept" :> "application/json")

\* Headers with a request counter: the number of invocations alive at the call
HeadersWithNonce(api_token) ==
    ("accept" :> "application/json")
    @@ ("Authorization" :> ("Bearer " \o api_token))
    @@ ("X-Request-Id" :>
          IntToStr(Cardinality({i \in DOMAIN pc : pc[i] # "idle"})))

\* headers = {"accept": ..., "Authorization": f"Bearer {api_token}"}
Headers(api_token) ==
    ("accept" :> "application/json")
    @@ ("Authorization" :> ("Bearer " \o api_token))

\* the same with "Content-Type": "application/json", as the POST bindings build it
JsonHeaders(api_token) ==
    ("accept" :> "application/json")
    @@ ("Authorization" :> ("Bearer " \o api_token))
    @@ ("Content-Type" :> "application/json")

\* client.get(url, headers=headers)
Get(url, headers) ==
    [method |-> "GET", url |-> url, headers |-> headers,
     carrier |-> "none", data |-> EmptyDict]

\* client.get(url, headers=headers, params=params)
GetParams(url, headers, params) ==
    [method |-> "GET", url |-> url, headers |-> headers,
     carrier |-> "params", data |-> params]

\* client.post(url, headers=headers, json=data)
PostJson(url, headers, data) ==
    [method |-> "POST", url |-> url, headers |-> headers,
     carrier |-> "json", data |-> data]

(***************************************************************************)
(* The bindings: each maps its arguments a to the call it issues           *)
(***************************************************************************)
get_actions(a) ==
    LET url == base_url \o "/actions"
        headers == Headers(a.api_token)
    IN  Get(url, headers)


\* post_bundle_info with chainId a member of the initial dict
post_bundle_info_chain_always(a) ==
    LET url == base_url \o "/shortcuts/bundle"
        headers == JsonHeaders(a.api_token)
        params == ("chainId" :> a.chain_id)
                  @@ ("fromAddress" :> a.from_address)
                  @@ ("routingStrategy" :> a.routing_strategy)
                  @@ ("receiver" :> a.receiver)
                  @@ ("spender" :> a.spender)
    IN  PostJson(url, headers, params)

post_bundle_info(a) ==
    LET url == base_url \o "/shortcuts/bundle"
        headers == JsonHeaders(a.api_token)
        params0 == ("fromAddress" :> a.from_address)
                   @@ ("routingStrategy" :> a.routing_strategy)
                   @@ ("receiver" :> a.receiver)
                   @@ ("spender" :> a.spender)
        params == IF Truthy(a.chain_id)
                  THEN SetItem(params0, "chainId", a.chain_id)
                  ELSE params0
    IN  PostJson(url, headers, params)

get_supported_networks(a) ==
    LET url == base_url \o "/networks"
        headers == Headers(a.api_token)
        params == ("name" :> a.name) @@ ("chainId" :> a.chainId)
    IN  GetParams(url, headers, params)

get_token_prices(a) ==
    LET url == base_url \o "/shortcuts/route/" \o Format(a.chain_id)
               \o "/" \o Format(a.address)
        headers == Headers(a.api_token)
    IN  Get(url, headers)

get_protocols(a) ==
    LET url == base_url \o "/protocols"
        headers == Headers(a.api_token)
        params0 == EmptyDict
        params == IF Truthy(a.slug) THEN SetItem(params0, "slug", a.slug)
                  ELSE params0
    IN  GetParams(url, headers, params)

get_shortcut_route(a) ==
    LET url == base_url \o "/shortcuts/quote"
        headers == Headers(a.api_token)
        params0 == ("chainId" :> a.chain_id)
                   @@ ("fromAddress" :> a.from_address)
                   @@ ("routingStrategy" :> a.routing_strategy)
                   @@ ("amountIn" :> a.amount_in)
                   @@ ("fee" :> a.fee)
                   @@ ("feeReceiver" :> a.fee_receiver)
                   @@ ("disableRFQs" :> a.disable_rfqs)
                   @@ ("tokenIn" :> a.token_in)
                   @@ ("tokenOut" :> a.token_out)
        params1 == IF Truthy(a.ignore_aggregators)
                   THEN SetItem(params0, "ignoreAggregators", a.ignore_aggregators)
                   ELSE params0
        \* the second test reads ignore_aggregators again, not ignore_standards
        params == IF Truthy(a.ignore_aggregators)
                  THEN SetItem(params1, "ignoreStandards", a.ignore_standards)
                  ELSE params1
    IN  GetParams(url, headers, params)

get_shortcut_quote(a) ==
    LET url == base_url \o "/shortcuts/quote"
        headers == JsonHeaders(a.api_token)
        data == ("chainId" :> a.chain_id)
                @@ ("fromAddress" :> a.from_address)
                @@ ("routingStrategy" :> a.routing_strategy)
                @@ ("route" :> a.route)
                @@ ("fee" :> a.fee)
                @@ ("feeReceiver" :> a.fee_receiver)
                @@ ("disableRFQs" :> a.disable_rfqs)
                @@ ("ignoreAggregators" :> a.ignore_aggregators)
                @@ ("blockNumber" :> a.block_number)
    IN  PostJson(url, headers, data)

\* the data dict of get_swap_tokens and of post_swap_tokens (the same seventeen keys)
SwapData(a) ==
    ("chainId" :> a.chain_id)
    @@ ("fromAddress" :> a.from_address)
    @@ ("routingStrategy" :> a.routing_strategy)
    @@ ("receiver" :> a.receiver)
    @@ ("spender" :> a.spender)
    @@ ("amountIn" :> a.amount_in)
    @@ ("amountOut" :> a.amount_out)
    @@ ("minAmountOut" :> a.min_amount_out)
    @@ ("slippage" :> a.slippage)
    @@ ("fee" :> a.fee)
    @@ ("feeReceiver" :> a.fee_receiver)
    @@ ("disableRFQs" :> a.disable_rfqs)
    @@ ("ignoreAggregators" :> a.ignore_aggregators)
    @@ ("ignoreStandards" :> a.ignore_standards)
    @@ ("tokenIn" :> a.token_in)
    @@ ("tokenOut" :> a.token_out)
    @@ ("variableEstimates" :> a.variable_estimates)

\* issues client.post although it is named get_
get_swap_tokens(a) ==
    LET url == base_url \o "/shortcuts/route"
        headers == JsonHeaders(a.api_token)
        data == SwapData(a)
    IN  PostJson(url, headers, data)

post_swap_tokens(a) ==
    LET url == base_url \o "/shortcuts/route"
        headers == JsonHeaders(a.api_token)
        data == SwapData(a)
    IN  PostJson(url, headers, data)

post_static_ipor_info(a) ==
    LET url == base_url \o "/static/ipor"
        headers == JsonHeaders(a.api_token)
        data == ("chainId" :> a.chain_id) @@ ("address" :> a.address)
    IN  PostJson(url, headers, data)

\* the underlyingTokens value: a str as it is, a list joined by ","
UnderlyingTokens(underlying_tokens) ==
    IF IsInstance(underlying_tokens, "str") THEN underlying_tokens
    ELSE PyStr(Join(<<",">>, underlying_tokens[2]))

get_tokens_info(a) ==
    LET url == base_url \o "/tokens"
        headers == Headers(a.api_token)
        params0 == ("chainId" :> a.chain_id)
                   @@ ("page" :> a.page)
                   @@ ("perPage" :> a.per_page)
        params1 == IF Truthy(a.protocol_slug)
                   THEN SetItem(params0, "protocolSlug", a.protocol_slug)
                   ELSE params0
        params2 == IF Truthy(a.primary_address)
                   THEN SetItem(params1, "primaryAddress", a.primary_address)
                   ELSE params1
        params3 == IF Truthy(a.type)
                   THEN SetItem(params2, "type", a.type)
                   ELSE params2
        params == IF IsInstance(a.underlying_tokens, "str")
                     \/ IsInstance(a.underlying_tokens, "list")
                  THEN SetItem(params3, "underlyingTokens",
                               UnderlyingTokens(a.underlying_tokens))
                  ELSE params3
    IN  GetParams(url, headers, params)

get_wallet_info(a) ==
    LET url == base_url \o "/wallet"
        headers == Headers(a.api_token)
        params0 == ("fromAddress" :> a.from_address)
        params1 == IF Truthy(a.chain_id)
                   THEN SetItem(params0, "chainId", a.chain_id)
                   ELSE params0
        params == IF Truthy(a.routing_strategy)
                  THEN SetItem(params1, "routingStrategy", a.routing_strategy)
                  ELSE params1
    IN  GetParams(url, headers, params)


\* approve_wallet_token with chainId and routingStrategy set by the conditional
\* blocks only
approve_wallet_token_conditional(a) ==
    LET url == base_url \o "/wallet/approve"
        headers == Headers(a.api_token)
        params0 == ("fromAddress" :> a.from_address)
                   @@ ("tokenAddress" :> a.token_address)
                   @@ ("amount" :> a.amount)
        params1 == IF Truthy(a.chain_id)
                   THEN SetItem(params0, "chainId", a.chain_id)
                   ELSE params0
        params == IF Truthy(a.routing_strategy)
                  THEN SetItem(params1, "routingStrategy", a.routing_strategy)
                  ELSE params1
    IN  GetParams(url, headers, params)

approve_wallet_token(a) ==
    LET url == base_url \o "/wallet/approve"
        headers == Headers(a.api_token)
        params0 == ("chainId" :> a.chain_id)
                   @@ ("fromAddress" :> a.from_address)
                   @@ ("routingStrategy" :> a.routing_strategy)
                   @@ ("tokenAddress" :> a.token_address)
                   @@ ("amount" :> a.amount)
        params1 == IF Truthy(a.chain_id)
                   THEN SetItem(params0, "chainId", a.chain_id)
                   ELSE params0
        params == IF Truthy(a.routing_strategy)
                  THEN SetItem(params1, "routingStrategy", a.routing_strategy)
                  ELSE params1
    IN  GetParams(url, headers, params)


\* approvals_wallet_token with routingStrategy a member of the initial dict
approvals_wallet_token_full_dict(a) ==
    LET url == base_url \o "/wallet/approvals"
        headers == Headers(a.api_token)
        params0 == ("chainId" :> a.chain_id)
                   @@ ("fromAddress" :> a.from_address)
                   @@ ("routingStrategy" :> a.routing_strategy)
        params1 == IF Truthy(a.chain_id)
                   THEN SetItem(params0, "chainId", a.chain_id)
                   ELSE params0
        params == IF Truthy(a.routing_strategy)
                  THEN SetItem(params1, "routingStrategy", a.routing_strategy)
                  ELSE params1
    IN  GetParams(url, headers, params)

approvals_wallet_token(a) ==
    LET url == base_url \o "/wallet/approvals"
        headers == Headers(a.api_token)
        params0 == ("chainId" :> a.chain_id)
                   @@ ("fromAddress" :> a.from_address)
        params1 == IF Truthy(a.chain_id)
                   THEN SetItem(params0, "chainId", a.chain_id)
                   ELSE params0
        params == IF Truthy(a.routing_strategy)
                  THEN SetItem(params1, "routingStrategy", a.routing_strategy)
                  ELSE params1
    IN  GetParams(url, headers, params)

\* get_wallet_balances written with the `if value:` tests of get_wallet_info
get_wallet_balances_if_truthy(a) ==
    LET url == base_url \o "/wallet/balances"
        headers == Headers(a.api_token)
        params0 == ("eoaAddress" :> a.eoa_address)
        params1 == IF Truthy(a.chain_id)
                   THEN SetItem(params0, "chainId", a.chain_id)
                   ELSE params0
        params == IF Truthy(a.use_eoa)
                  THEN SetItem(params1, "useEoa", a.use_eoa)
                  ELSE params1
    IN  GetParams(url, headers, params)

get_wallet_balances(a) ==
    LET url == base_url \o "/wallet/balances"
        headers == Headers(a.api_token)
        params == ("chainId" :> a.chain_id)
                  @@ ("eoaAddress" :> a.eoa_address)
                  @@ ("useEoa" :> a.use_eoa)
    IN  GetParams(url, headers, params)

Bindings ==
    {"get_actions", "post_bundle_info", "get_supported_networks",
     "get_token_prices", "get_protocols", "get_shortcut_route",
     "get_shortcut_quote", "get_swap_tokens", "post_swap_tokens",
     "post_static_ipor_info", "get_tokens_info", "get_wallet_info",
     "approve_wallet_token", "approvals_wallet_token", "get_wallet_balances"}

\* the descriptor binding b builds from the arguments a
Build(b, a) ==
    CASE b = "get_actions"            -> get_actions(a)
      [] b = "post_bundle_info"       -> post_bundle_info(a)
      [] b = "get_supported_networks" -> get_supported_networks(a)
      [] b = "get_token_prices"       -> get_token_prices(a)
      [] b = "get_protocols"          -> get_protocols(a)
      [] b = "get_shortcut_route"     -> get_shortcut_route(a)
      [] b = "get_shortcut_quote"     -> get_shortcut_quote(a)
      [] b = "get_swap_tokens"        -> get_swap_tokens(a)
      [] b = "post_swap_tokens"       -> post_swap_tokens(a)
      [] b = "post_static_ipor_info"  -> post_static_ipor_info(a)
      [] b = "get_tokens_info"        -> get_tokens_info(a)
      [] b = "get_wallet_info"        -> get_wallet_info(a)
      [] b = "approve_wallet_token"   -> approve_wallet_token(a)
      [] b = "approvals_wallet_token" -> approvals_wallet_token(a)
      [] b = "get_wallet_balances"    -> get_wallet_balances(a)

\* whether binding b ends its except clauses with `except Exception`
HasCatchAll(b) ==
    b \notin {"post_bundle_info", "get_supported_networks",
              "post_static_ipor_info", "get_tokens_info"}

\* ExceptClauses with the catch-all clause written first
ExceptClausesCatchAllFirst(b) ==
    IF HasCatchAll(b)
    THEN <<"Exception", "HTTPStatusError", "HTTPError">>
    ELSE <<"HTTPStatusError", "HTTPError">>


\* ExceptClauses with the httpx.HTTPError clause written before its subclass
ExceptClausesHTTPErrorFirst(b) ==
    IF HasCatchAll(b)
    THEN <<"HTTPError", "HTTPStatusError", "Exception">>
    ELSE <<"HTTPError", "HTTPStatusError">>

\* the except clauses of binding b, in the order they are written
ExceptClauses(b) ==
    IF HasCatchAll(b)
    THEN <<"HTTPStatusError", "HTTPError", "Exception">>
    ELSE <<"HTTPStatusError", "HTTPError">>

\* the text the catch-all clause of binding b puts before str(e)
CatchAllPrefix(b) ==
    CASE b = "get_actions" -> "error getting the enso actions "
      [] b \in {"get_token_prices", "get_protocols"}
           -> "error getting the enso tokens "
      [] b \in {"get_shortcut_route", "get_shortcut_quote",
                "get_swap_tokens", "post_swap_tokens"}
           -> "error getting swap route "
      [] OTHER -> "error getting the enso wallet "

(***************************************************************************)
(* httpx: what the client sends, what it answers, what it raises           *)
(***************************************************************************)
\* httpx's rendering of one query parameter value
PrimitiveValueToStr(v) ==
    CASE v[1] = "None" -> PyStr("")
      [] v[1] = "bool" -> PyStr(IF v[2] THEN "true" ELSE "false")
      [] v[1] = "int"  -> PyStr(IntToStr(v[2]))
      [] OTHER         -> v

\* json.dumps of one value of the body: None becomes null
JsonValue(v) == IF v[1] = "None" THEN <<"null", "null">> ELSE v

\* the HTTP request the client puts on the wire for the call r
Transmit(r) ==
    [method  |-> r.method,
     url     |-> r.url,
     headers |-> r.headers,
     query   |-> IF r.carrier = "params"
                 THEN [k \in DOMAIN r.data |-> PrimitiveValueToStr(r.data[k])]
                 ELSE EmptyDict,
     json    |-> IF r.carrier = "json"
                 THEN [k \in DOMAIN r.data |-> JsonValue(r.data[k])]
                 ELSE EmptyDict]

\* the classes an exception of class t is an instance of
Bases(t) ==
    CASE t = "HTTPStatusError" -> {"HTTPStatusError", "HTTPError", "Exception"}
      [] t = "ConnectError"    -> {"ConnectError", "TransportError", "RequestError",
                                   "HTTPError", "Exception"}
      [] t = "ReadTimeout"     -> {"ReadTimeout", "TimeoutException", "TransportError",
                                   "RequestError", "HTTPError", "Exception"}
      [] t = "InvalidURL"      -> {"InvalidURL", "Exception"}
      [] t = "JSONDecodeError" -> {"JSONDecodeError", "ValueError", "Exception"}
      [] t = "AttributeError"  -> {"AttributeError", "Exception"}
      [] OTHER                 -> {t, "Exception"}

\* an exception object: its class, str(e), the attributes it has, its response's status
Exc(t, text, attrs, status) ==
    [type |-> t, text |-> text, attrs |-> attrs, status |-> status]

\* what `await client.get/post(...)` gives back: a response
Response(status_code, body) ==
    [kind |-> "response", status_code |-> status_code, body |-> body,
     type |-> "", text |-> ""]

\* ... or an exception raised by the transport
Failure(t, text) ==
    [kind |-> "raise", status_code |-> 0, body |-> "", type |-> t, text |-> text]

\* response.is_success
IsSuccess(r) == 200 <= r.status_code /\ r.status_code <= 299

\* the bodies that decode as JSON
DecodableBodies == {"{\"data\": 1}", "[]"}

\* response.json() on a body that decodes: the decoded value
JsonLoads(body) ==
    CASE body = "{\"data\": 1}" -> <<"dict", ("data" :> PyInt(1))>>
      [] body = "[]"            -> PyList(<<>>)

\* the statements of the try block: the value returned, or the exception raised
TryBody(r) ==
    IF r.kind = "raise"
    THEN [raised |-> TRUE, value |-> None,
          exc |-> Exc(r.type, r.text, {"request"}, 0)]
    ELSE IF ~IsSuccess(r)
    THEN [raised |-> TRUE, value |-> None,
          exc |-> Exc("HTTPStatusError",
                      "status error " \o IntToStr(r.status_code),
                      {"request", "response"}, r.status_code)]
    ELSE IF r.body \notin DecodableBodies
    THEN [raised |-> TRUE, value |-> None,
          exc |-> Exc("JSONDecodeError", "Expecting value", {"msg", "doc", "pos"}, 0)]
    ELSE [raised |-> FALSE, value |-> JsonLoads(r.body),
          exc |-> Exc("", "", {}, 0)]

\* what an invocation delivers to its caller
Return(type, msg, value) ==
    [kind |-> "return", type |-> type, msg |-> msg, value |-> value]

Raise(type, msg) ==
    [kind |-> "raise", type |-> type, msg |-> msg, value |-> None]

\* except httpx.HTTPStatusError as e: the f-string reads e.status_code, an
\* attribute HTTPStatusError objects do not have, so building the message raises
StatusHandler(e) ==
    IF "status_code" \in e.attrs
    THEN Raise("Exception",
               <<"API request failed with status code: ", IntToStr(e.status)>>)
    ELSE Raise("AttributeError",
               <<"'HTTPStatusError' object has no attribute 'status_code'">>)

\* except httpx.HTTPError as e
TransportHandler(e) ==
    Raise("Exception", <<"An HTTP error occurred: ", e.text>>)

\* except Exception as e
CatchAllHandler(b, e) ==
    Return("str", <<CatchAllPrefix(b), e.text>>,
           <<"str", CatchAllPrefix(b) \o e.text>>)

\* the first except clause of cs that matches e, 0 when none does
FirstMatch(cs, e) ==
    IF \E k \in DOMAIN cs : cs[k] \in Bases(e.type)
    THEN CHOOSE k \in DOMAIN cs :
            /\ cs[k] \in Bases(e.type)
            /\ \A j \in DOMAIN cs : cs[j] \in Bases(e.type) => k <= j
    ELSE 0

\* Handle with the payload unwrapped: a decoded object with a "data" field is
\* returned as that field
HandleUnwrap(b, r) ==
    LET t == TryBody(r)
        cs == ExceptClauses(b)
        k == FirstMatch(cs, t.exc)
    IN  IF ~t.raised
        THEN IF t.value[1] = "dict" /\ "data" \in DOMAIN t.value[2]
             THEN Return("json", <<>>, t.value[2]["data"])
             ELSE Return("json", <<>>, t.value)
        ELSE IF k = 0 THEN Raise(t.exc.type, <<t.exc.text>>)
        ELSE IF cs[k] = "HTTPStatusError" THEN StatusHandler(t.exc)
        ELSE IF cs[k] = "HTTPError" THEN TransportHandler(t.exc)
        ELSE CatchAllHandler(b, t.exc)

\* Handle behind a circuit breaker shared by the module: once an invocation has
\* raised, the others fail without looking at their own result
HandleBreaker(b, r) ==
    IF \E k \in DOMAIN outcome : outcome[k].delivered.kind = "raise"
    THEN Raise("Exception", <<"circuit open">>)
    ELSE LET t == TryBody(r)
             cs == ExceptClauses(b)
             k == FirstMatch(cs, t.exc)
         IN  IF ~t.raised THEN Return("json", <<>>, t.value)
             ELSE IF k = 0 THEN Raise(t.exc.type, <<t.exc.text>>)
             ELSE IF cs[k] = "HTTPStatusError" THEN StatusHandler(t.exc)
             ELSE IF cs[k] = "HTTPError" THEN TransportHandler(t.exc)
             ELSE CatchAllHandler(b, t.exc)

\* try / except of binding b on the transport's result r.  An exception raised
\* inside a handler leaves the try statement: no later clause sees it.
Handle(b, r) ==
    LET t == TryBody(r)
        cs == ExceptClauses(b)
        k == FirstMatch(cs, t.exc)
    IN  IF ~t.raised THEN Return("json", <<>>, t.value)
        ELSE IF k = 0 THEN Raise(t.exc.type, <<t.exc.text>>)
        ELSE IF cs[k] = "HTTPStatusError" THEN StatusHandler(t.exc)
        ELSE IF cs[k] = "HTTPError" THEN TransportHandler(t.exc)
        ELSE CatchAllHandler(b, t.exc)

\* Resume with a retry: after a raised error the request is issued again
ResumeRetry(o) == IF o.kind = "raise" THEN "open" ELSE "exiting"

\* where the coroutine goes once its handler has run: out of the with block
Resume(o) == "exiting"

(***************************************************************************)
(* The arguments the callers pass, and the answers of the remote API       *)
(***************************************************************************)
\* the longest underlying_tokens list a caller passes
MaxTokens == 2

\* a universe of argument values: the callers' tokens, the ways an optional
\* argument is left out, the required numbers and flags, the token lists
Wide ==
    [tokens |-> {"token_a", "token_b"},
     absent |-> {"None", "empty"},
     ints   |-> {0, 1},
     flags  |-> {TRUE, FALSE},
     lists  |-> 0 .. MaxTokens]

Narrow ==
    [tokens |-> {"token_a", "token_b"},
     absent |-> {},
     ints   |-> {1},
     flags  |-> {TRUE},
     lists  |-> {}]

\* an optional str: v, or left out
OptStr(U, v) ==
    {PyStr(v)} \cup (IF "None" \in U.absent THEN {None} ELSE {})
               \cup (IF "empty" \in U.absent THEN {PyStr("")} ELSE {})

\* an optional int (chain_id with default None): 1, or left out
OptInt(U) ==
    {PyInt(1)} \cup (IF "None" \in U.absent THEN {None} ELSE {})
               \cup (IF "empty" \in U.absent THEN {PyInt(0)} ELSE {})

\* an optional list of str
OptList(U, l) ==
    {PyList(l)} \cup (IF "None" \in U.absent THEN {None} ELSE {})
                \cup (IF "empty" \in U.absent THEN {PyList(<<>>)} ELSE {})

ReqInt(U) == {PyInt(n) : n \in U.ints}

ReqBool(U) == {PyBool(f) : f \in U.flags}

\* token addresses, character by character
Addresses == {<<"0", "x", "A">>, <<"0", "x", "B">>}

\* underlying_tokens: one address, or a list of addresses
Underlying(U) ==
    {PyStr(x) : x \in Addresses}
    \cup {PyList(l) : l \in UNION {[1 .. n -> Addresses] : n \in U.lists}}

Wallet == PyStr("0xd8da6bf26964af9d7eed9e03e53415d37aa96045")

\* the argument sets of binding b over the universe U
Args(b, U) ==
    CASE b = "get_actions" -> {[api_token |-> t] : t \in U.tokens}
      [] b = "post_bundle_info" ->
           {[api_token |-> t, chain_id |-> c, from_address |-> Wallet,
             routing_strategy |-> PyStr("delegate"), receiver |-> Wallet,
             spender |-> Wallet] : t \in U.tokens, c \in OptInt(U)}
      [] b = "get_supported_networks" ->
           {[api_token |-> t, name |-> n, chainId |-> c] :
              t \in U.tokens,
              n \in OptStr(U, "Ethereum") \ {None},
              c \in OptStr(U, "1") \ {None}}
      [] b = "get_token_prices" ->
           {[api_token |-> t, chain_id |-> c, address |-> Wallet] :
              t \in U.tokens, c \in ReqInt(U)}
      [] b = "get_protocols" ->
           {[api_token |-> t, slug |-> g] :
              t \in U.tokens, g \in OptStr(U, "uniswap-v2")}
      [] b = "get_shortcut_route" ->
           {[api_token |-> t, chain_id |-> PyInt(1), from_address |-> Wallet,
             routing_strategy |-> PyStr("router"), token_in |-> PyStr("0xIN"),
             token_out |-> PyStr("0xOUT"), amount_in |-> PyStr("1000"),
             fee |-> PyStr("10"), fee_receiver |-> Wallet,
             disable_rfqs |-> PyBool(FALSE),
             ignore_aggregators |-> ia, ignore_standards |-> is] :
              t \in U.tokens, ia \in OptStr(U, "0x,paraswap"),
              is \in OptStr(U, "erc4626")}
      [] b = "get_shortcut_quote" ->
           {[api_token |-> t, chain_id |-> PyInt(1), from_address |-> Wallet,
             routing_strategy |-> PyStr("ensowallet"),
             route |-> PyList(<<"step">>), fee |-> PyList(<<"10">>),
             fee_receiver |-> Wallet, disable_rfqs |-> PyBool(FALSE),
             ignore_aggregators |-> ia, block_number |-> bn] :
              t \in U.tokens, ia \in OptList(U, <<"paraswap">>),
              bn \in OptStr(U, "19000000")}
      [] b \in {"get_swap_tokens", "post_swap_tokens"} ->
           {[api_token |-> t, chain_id |-> PyInt(1), from_address |-> Wallet,
             routing_strategy |-> PyStr("router"), receiver |-> Wallet,
             spender |-> Wallet, amount_in |-> PyList(<<"1000">>),
             amount_out |-> PyList(<<"990">>), min_amount_out |-> mao,
             slippage |-> PyStr("300"), fee |-> PyList(<<"10">>),
             fee_receiver |-> Wallet, disable_rfqs |-> PyBool(FALSE),
             ignore_aggregators |-> PyList(<<>>),
             ignore_standards |-> PyList(<<>>),
             token_in |-> PyList(<<"0xIN">>), token_out |-> PyList(<<"0xOUT">>),
             variable_estimates |-> ve] :
              t \in U.tokens, mao \in OptStr(U, "980"), ve \in OptStr(U, "est")}
      [] b = "post_static_ipor_info" ->
           {[api_token |-> t, chain_id |-> c, address |-> Wallet] :
              t \in U.tokens, c \in ReqInt(U)}
      [] b = "get_tokens_info" ->
           {[api_token |-> t, chain_id |-> PyInt(1), underlying_tokens |-> u,
             protocol_slug |-> ps, primary_address |-> pa, type |-> ty,
             page |-> PyInt(1), per_page |-> PyInt(100)] :
              t \in U.tokens, u \in Underlying(U),
              ps \in OptStr(U, "aave-v2") \ {PyStr("")},
              pa \in OptStr(U, "0xPRIMARY") \ {PyStr("")},
              ty \in OptStr(U, "defi") \ {PyStr("")}}
      [] b = "get_wallet_info" ->
           {[api_token |-> t, chain_id |-> c, from_address |-> Wallet,
             routing_strategy |-> rs] :
              t \in U.tokens, c \in OptInt(U),
              rs \in OptStr(U, "delegate") \ {None}}
      [] b = "approve_wallet_token" ->
           {[api_token |-> t, chain_id |-> c, from_address |-> Wallet,
             routing_strategy |-> rs, token_address |-> PyStr("0xTOKEN"),
             amount |-> PyStr("1000")] :
              t \in U.tokens, c \in OptInt(U),
              rs \in OptStr(U, "delegate") \ {None}}
      [] b = "approvals_wallet_token" ->
           {[api_token |-> t, chain_id |-> c, from_address |-> Wallet,
             routing_strategy |-> rs] :
              t \in U.tokens, c \in OptInt(U),
              rs \in OptStr(U, "delegate") \ {None}}
      [] b = "get_wallet_balances" ->
           {[api_token |-> t, chain_id |-> c, eoa_address |-> Wallet,
             use_eoa |-> f] :
              t \in U.tokens, c \in ReqInt(U), f \in ReqBool(U)}

\* what the transport can hand back to an awaiting invocation
Results ==
    {Response(200, "{\"data\": 1}"), Response(201, "[]"), Response(200, "<html>"),
     Response(404, "Not Found"), Response(500, "Internal Server Error"),
     Failure("ConnectError", "All connection attempts failed"),
     Failure("InvalidURL", "Invalid non-printable ASCII character in URL")}

(***************************************************************************)
(* The invocations.  Each slot holds one invocation of a binding from the  *)
(* call to the delivery of its result; the host may reuse the slot then.   *)
(***************************************************************************)
Slots == {1, 2}

NoCall == [binding |-> "none", args |-> EmptyDict]

NoRequest ==
    [method |-> "none", url |-> "", headers |-> EmptyDict,
     carrier |-> "none", data |-> EmptyDict]

NoFlight ==
    [method |-> "none", url |-> "", headers |-> EmptyDict,
     query |-> EmptyDict, json |-> EmptyDict]

NoResult == [kind |-> "none", status_code |-> 0, body |-> "", type |-> "", text |-> ""]

NoOutcome == [kind |-> "none", type |-> "", msg |-> <<>>, value |-> None]

Init ==
    /\ pc = [i \in Slots |-> "idle"]
    /\ call = [i \in Slots |-> NoCall]
    /\ request = [i \in Slots |-> NoRequest]
    /\ flight = [i \in Slots |-> NoFlight]
    /\ client = [i \in Slots |-> "none"]
    /\ via = [i \in Slots |-> 0]
    /\ sent = [i \in Slots |-> 0]
    /\ outcome = [i \in Slots |-> [result |-> NoResult, delivered |-> NoOutcome]]

\* ClientOf with one client shared by the module: the first one still open
ClientOfShared(i) ==
    IF \E k \in DOMAIN client : client[k] = "open"
    THEN CHOOSE k \in DOMAIN client :
            /\ client[k] = "open"
            /\ \A j \in DOMAIN client : client[j] = "open" => k <= j
    ELSE i

\* the client invocation i issues its request through: the local `client` its own
\* with statement bound, named by the invocation that opened it
ClientOf(i) == i

\* AExit as `await client.aclose()` written after the try block, which a raise skips
AExitAfterReturnOnly(o) == IF o.kind = "return" THEN "closed" ELSE "open"

\* what leaving the with block does to the client, whatever the outcome o
AExit(o) == "closed"

\* the host calls binding b with arguments a: url, headers and params are built
Invoke(i, b, a) ==
    /\ pc[i] = "idle"
    /\ pc' = [pc EXCEPT ![i] = "built"]
    /\ call' = [call EXCEPT ![i] = [binding |-> b, args |-> a]]
    /\ request' = [request EXCEPT ![i] = Build(b, a)]
    /\ UNCHANGED <<flight, client, via, sent, outcome>>

\* async with httpx.AsyncClient() as client
OpenClient(i) ==
    /\ pc[i] = "built"
    /\ pc' = [pc EXCEPT ![i] = "open"]
    /\ client' = [client EXCEPT ![i] = "open"]
    /\ UNCHANGED <<call, request, flight, via, sent, outcome>>

\* await client.get(...) / client.post(...): the request leaves, the coroutine suspends
Send(i) ==
    /\ pc[i] = "open"
    /\ pc' = [pc EXCEPT ![i] = "pending"]
    /\ flight' = [flight EXCEPT ![i] = Transmit(request[i])]
    /\ via' = [via EXCEPT ![i] = ClientOf(i)]
    /\ sent' = [sent EXCEPT ![i] = @ + 1]
    /\ UNCHANGED <<call, request, client, outcome>>


\* Respond with handlers that blank the credential in the headers before they
\* raise or return the error
RespondRedacting(i, r) ==
    /\ pc[i] = "pending"
    /\ LET o == Handle(call[i].binding, r)
       IN  /\ pc' = [pc EXCEPT ![i] = Resume(o)]
           /\ outcome' = [outcome EXCEPT ![i] = [result |-> r, delivered |-> o]]
           /\ request' = IF o.type = "json"
                         THEN request
                         ELSE [request EXCEPT ![i].headers =
                                   SetItem(@, "Authorization", "Bearer ***")]
    /\ UNCHANGED <<call, flight, client, via, sent>>

\* the transport's result r arrives; raise_for_status, json and the except clauses run
Respond(i, r) ==
    /\ pc[i] = "pending"
    /\ LET o == Handle(call[i].binding, r)
       IN  /\ pc' = [pc EXCEPT ![i] = Resume(o)]
           /\ outcome' = [outcome EXCEPT ![i] = [result |-> r, delivered |-> o]]
    /\ UNCHANGED <<call, request, flight, client, via, sent>>

\* the with block is left: the client is closed
CloseClient(i) ==
    /\ pc[i] = "exiting"
    /\ pc' = [pc EXCEPT ![i] = "done"]
    /\ client' = [client EXCEPT ![i] = AExit(outcome[i].delivered)]
    /\ UNCHANGED <<call, request, flight, via, sent, outcome>>

\* the caller has taken the result; nothing of the invocation is kept
Deliver(i) ==
    /\ pc[i] = "done"
    /\ pc' = [pc EXCEPT ![i] = "idle"]
    /\ call' = [call EXCEPT ![i] = NoCall]
    /\ request' = [request EXCEPT ![i] = NoRequest]
    /\ flight' = [flight EXCEPT ![i] = NoFlight]
    /\ client' = [client EXCEPT ![i] = "none"]
    /\ via' = [via EXCEPT ![i] = 0]
    /\ sent' = [sent EXCEPT ![i] = 0]
    /\ outcome' = [outcome EXCEPT ![i] = [result |-> NoResult, delivered |-> NoOutcome]]

\* one caller, one invocation at a time, over the wide universe of arguments
Next ==
    \/ \E b \in Bindings : \E a \in Args(b, Wide) : Invoke(1, b, a)
    \/ OpenClient(1)
    \/ Send(1)
    \/ \E r \in Results : Respond(1, r)
    \/ CloseClient(1)
    \/ Deliver(1)

Spec == Init /\ [][Next]_vars

\* concurrent callers: the invocations of all slots interleave at every step
NextPar ==
    \/ \E i \in Slots : \E b \in Bindings : \E a \in Args(b, Narrow) : Invoke(i, b, a)
    \/ \E i \in Slots : OpenClient(i)
    \/ \E i \in Slots : Send(i)
    \/ \E i \in Slots : \E r \in Results : Respond(i, r)
    \/ \E i \in Slots : CloseClient(i)
    \/ \E i \in Slots : Deliver(i)

SpecPar == Init /\ [][NextPar]_vars

(***************************************************************************)
(* Properties                                                              *)
(***************************************************************************)
\* invocation i has issued its request
Issued(i) == pc[i] \in {"pending", "exiting", "done"}

\* invocation i has had the transport's result and run its handlers
Answered(i) == pc[i] \in {"exiting", "done"}

\* the transport's result is a response with a failure status
FailureStatus(r) == r.kind = "response" /\ ~IsSuccess(r)

\* the transport's result is a transport failure: an httpx.HTTPError raised by the call
TransportFailure(r) == r.kind = "raise" /\ "HTTPError" \in Bases(r.type)

\* C1: every request that has been issued, by any binding with any arguments,
\* carries Authorization: Bearer <the caller's own api_token> and
\* accept: application/json.
C1_AuthHeaders ==
    \A i \in Slots :
        Issued(i) =>
            /\ {"Authorization", "accept"} \subseteq DOMAIN flight[i].headers
            /\ flight[i].headers["Authorization"]
                 = "Bearer " \o call[i].args.api_token
            /\ flight[i].headers["accept"] = "application/json"

C1_Witness ==
    /\ pc[1] = "pending"
    /\ call[1].binding = "post_swap_tokens"
    /\ call[1].args.api_token = "token_b"
    /\ flight[1].headers["Authorization"] = "Bearer token_b"

\* C2: an invocation issues exactly one request over its lifetime: none before
\* it sends, one from then on, and never a second one whatever the outcome.
C2_OneRequest ==
    \A i \in Slots :
        /\ sent[i] <= 1
        /\ Issued(i) => sent[i] = 1
        /\ ~Issued(i) => sent[i] = 0

C2_Witness ==
    /\ pc[1] = "done"
    /\ TransportFailure(outcome[1].result)
    /\ outcome[1].delivered.kind = "raise"
    /\ sent[1] = 1

\* C3: when the response has a failure status, the caller gets the generic
\* Exception of the status handler and its message includes the status code.
C3_StatusErrorCarriesCode ==
    \A i \in Slots :
        (Answered(i) /\ FailureStatus(outcome[i].result)) =>
            /\ outcome[i].delivered.kind = "raise"
            /\ outcome[i].delivered.type = "Exception"
            /\ \E k \in DOMAIN outcome[i].delivered.msg :
                 outcome[i].delivered.msg[k]
                   = IntToStr(outcome[i].result.status_code)

\* C4: an invocation whose response has a failure status, or whose transport
\* fails, ends by raising; it never returns a value, in the bindings with a
\* catch-all clause either.
C4_FailureNeverReturns ==
    \A i \in Slots :
        (Answered(i) /\ (FailureStatus(outcome[i].result)
                         \/ TransportFailure(outcome[i].result))) =>
            outcome[i].delivered.kind = "raise"

C4_Witness ==
    /\ pc[1] = "done"
    /\ HasCatchAll(call[1].binding)
    /\ call[1].binding = "get_wallet_balances"
    /\ outcome[1].result.status_code = 500
    /\ outcome[1].delivered.kind = "raise"

\* the optional parameters of binding b (Optional[...], `| None` or default=None
\* in its signature, chain_id of post_bundle_info by its `if chain_id:`), each
\* with the key it is sent under
OptionalFields(b) ==
    CASE b = "post_bundle_info" -> {<<"chain_id", "chainId">>}
      [] b = "get_protocols" -> {<<"slug", "slug">>}
      [] b = "get_shortcut_route" ->
           {<<"ignore_aggregators", "ignoreAggregators">>,
            <<"ignore_standards", "ignoreStandards">>}
      [] b = "get_shortcut_quote" ->
           {<<"ignore_aggregators", "ignoreAggregators">>,
            <<"block_number", "blockNumber">>}
      [] b \in {"get_swap_tokens", "post_swap_tokens"} ->
           {<<"min_amount_out", "minAmountOut">>,
            <<"variable_estimates", "variableEstimates">>}
      [] b = "get_tokens_info" ->
           {<<"protocol_slug", "protocolSlug">>,
            <<"primary_address", "primaryAddress">>, <<"type", "type">>}
      [] b \in {"get_wallet_info", "approve_wallet_token", "approvals_wallet_token"} ->
           {<<"chain_id", "chainId">>}
      [] OTHER -> {}

\* the keys of the query string and of the JSON body of the request i issued
SentKeys(i) == DOMAIN flight[i].query \cup DOMAIN flight[i].json

\* C5: in every binding, an optional parameter that is None, empty or false is
\* not a key of the query string or JSON body of the request issued.
C5_AbsentOptionalNotSent ==
    \A i \in Slots :
        Issued(i) =>
            \A f \in OptionalFields(call[i].binding) :
                ~Truthy(call[i].args[f[1]]) => f[2] \notin SentKeys(i)

\* C6: get_shortcut_route sends ignoreStandards exactly when ignore_standards is
\* present and non-empty, and ignoreAggregators exactly when ignore_aggregators
\* is, each independently of the other.
C6_RouteIgnoreKeys ==
    \A i \in Slots :
        (Issued(i) /\ call[i].binding = "get_shortcut_route") =>
            /\ ("ignoreStandards" \in SentKeys(i))
                 <=> Truthy(call[i].args.ignore_standards)
            /\ ("ignoreAggregators" \in SentKeys(i))
                 <=> Truthy(call[i].args.ignore_aggregators)

RECURSIVE Offset(_, _)
\* where element k of l starts in the comma-joined text: after the k-1 elements
\* before it and their commas
Offset(l, k) == IF k = 1 THEN 0 ELSE Offset(l, k - 1) + Len(l[k - 1]) + 1

\* text is the elements of l in their order with one "," between neighbours
CommaJoined(text, l) ==
    /\ Len(text) = IF Len(l) = 0 THEN 0
                   ELSE Offset(l, Len(l)) + Len(l[Len(l)])
    /\ \A k \in 1 .. Len(l) :
         /\ SubSeq(text, Offset(l, k) + 1, Offset(l, k) + Len(l[k])) = l[k]
         /\ k < Len(l) => text[Offset(l, k) + Len(l[k]) + 1] = ","

\* C7: get_tokens_info sends underlyingTokens equal to underlying_tokens when it
\* is a string, and to its elements in order with "," between them when it is a
\* list (one element: that element, no comma).
C7_UnderlyingTokens ==
    \A i \in Slots :
        (Issued(i) /\ call[i].binding = "get_tokens_info") =>
            LET u == call[i].args.underlying_tokens
            IN  /\ "underlyingTokens" \in DOMAIN flight[i].query
                /\ flight[i].query["underlyingTokens"][1] = "str"
                /\ IsInstance(u, "str") =>
                     flight[i].query["underlyingTokens"][2] = u[2]
                /\ IsInstance(u, "list") =>
                     CommaJoined(flight[i].query["underlyingTokens"][2], u[2])

C7_Witness ==
    /\ pc[1] = "pending"
    /\ call[1].binding = "get_tokens_info"
    /\ call[1].args.underlying_tokens
         = PyList(<<(<<"0", "x", "A">>), (<<"0", "x", "B">>)>>)
    /\ flight[1].query["underlyingTokens"]
         = PyStr(<<"0", "x", "A", ",", "0", "x", "B">>)

\* the method and path of the table of bindings
TableMethod(b) ==
    IF b \in {"post_bundle_info", "get_shortcut_quote", "post_swap_tokens",
              "post_static_ipor_info"}
    THEN "POST" ELSE "GET"

TablePath(b, a) ==
    CASE b = "get_actions"            -> "/actions"
      [] b = "post_bundle_info"       -> "/shortcuts/bundle"
      [] b = "get_supported_networks" -> "/networks"
      [] b = "get_token_prices"       ->
           "/shortcuts/route/" \o IntToStr(a.chain_id[2]) \o "/" \o a.address[2]
      [] b = "get_protocols"          -> "/protocols"
      [] b = "get_shortcut_route"     -> "/shortcuts/quote"
      [] b = "get_shortcut_quote"     -> "/shortcuts/quote"
      [] b = "get_swap_tokens"        -> "/shortcuts/route"
      [] b = "post_swap_tokens"       -> "/shortcuts/route"
      [] b = "post_static_ipor_info"  -> "/static/ipor"
      [] b = "get_tokens_info"        -> "/tokens"
      [] b = "get_wallet_info"        -> "/wallet"
      [] b = "approve_wallet_token"   -> "/wallet/approve"
      [] b = "approvals_wallet_token" -> "/wallet/approvals"
      [] b = "get_wallet_balances"    -> "/wallet/balances"

\* C8: every binding issues its request with the method and the path the table
\* gives for it.
C8_MethodAndPath ==
    \A i \in Slots :
        Issued(i) =>
            /\ flight[i].method = TableMethod(call[i].binding)
            /\ flight[i].url = base_url \o TablePath(call[i].binding, call[i].args)

\* C9: required parameters are sent whatever their value: get_wallet_balances
\* sends chainId, eoaAddress and useEoa (chain_id 0 and use_eoa false included),
\* get_supported_networks sends name and chainId (empty strings included).
C9_RequiredAlwaysSent ==
    \A i \in Slots :
        /\ (Issued(i) /\ call[i].binding = "get_wallet_balances") =>
             /\ DOMAIN flight[i].query = {"chainId", "eoaAddress", "useEoa"}
             /\ flight[i].query["chainId"]
                  = PyStr(IntToStr(call[i].args.chain_id[2]))
             /\ flight[i].query["eoaAddress"] = call[i].args.eoa_address
             /\ flight[i].query["useEoa"]
                  = PyStr(IF call[i].args.use_eoa[2] THEN "true" ELSE "false")
        /\ (Issued(i) /\ call[i].binding = "get_supported_networks") =>
             /\ DOMAIN flight[i].query = {"name", "chainId"}
             /\ flight[i].query["name"] = call[i].args.name
             /\ flight[i].query["chainId"] = call[i].args.chainId

C9_Witness ==
    /\ pc[1] = "pending"
    /\ call[1].binding = "get_wallet_balances"
    /\ call[1].args.chain_id = PyInt(0)
    /\ call[1].args.use_eoa = PyBool(FALSE)
    /\ flight[1].query["chainId"] = PyStr("0")
    /\ flight[1].query["useEoa"] = PyStr("false")

C11_ClientOwnedAndClosed ==
    \A i \in Slots :
        /\ pc[i] \in {"idle", "built"} => client[i] = "none"
        /\ pc[i] \in {"open", "pending", "exiting"} => client[i] = "open"
        /\ pc[i] = "done" => client[i] = "closed"
        /\ Issued(i) => via[i] = i
        /\ ~Issued(i) => via[i] = 0

C11_Witness ==
    /\ pc[1] = "done"
    /\ outcome[1].delivered.kind = "raise"
    /\ outcome[1].delivered.type = "InvalidURL"
    /\ client[1] = "closed"
    /\ pc[2] = "pending"
    /\ client[2] = "open"
    /\ via[2] = 2

\* what one step may do to invocation i when invocations interleave
C12_Step ==
    \A i \in Slots :
        \* a step of another invocation changes nothing of i
        /\ (\E j \in Slots \ {i} : pc'[j] # pc[j]) =>
             /\ pc'[i] = pc[i]
             /\ call'[i] = call[i]
             /\ request'[i] = request[i]
             /\ flight'[i] = flight[i]
             /\ client'[i] = client[i]
             /\ via'[i] = via[i]
             /\ sent'[i] = sent[i]
             /\ outcome'[i] = outcome[i]
        \* the request i sends is the one its arguments give, whatever the others do
        /\ (pc[i] = "open" /\ pc'[i] = "pending") =>
             \A j \in Slots \ {i} :
                 (Issued(j) /\ call[j] = call[i]) => flight'[i] = flight[j]
        \* what i delivers is decided by its own call and its own result
        /\ (pc[i] = "pending" /\ pc'[i] \in {"exiting", "done"}) =>
             \A j \in Slots \ {i} :
                 (/\ Answered(j)
                  /\ call[j] = call[i]
                  /\ outcome[j].result = outcome'[i].result) =>
                     outcome'[i].delivered = outcome[j].delivered

\* C12: under any interleaving, the request an invocation sends and the outcome it
\* delivers depend only on its own arguments and its own response; the steps of
\* another invocation, its failure included, change neither.
C12_Independent == [][C12_Step]_vars

C12_Witness ==
    /\ pc[1] = "done"
    /\ outcome[1].result.status_code = 500
    /\ outcome[1].delivered.kind = "raise"
    /\ pc[2] = "exiting"
    /\ call[2] = call[1]
    /\ call[2].binding = "approvals_wallet_token"
    /\ outcome[2].result.status_code = 200
    /\ outcome[2].delivered.kind = "return"
    /\ outcome[2].delivered.type = "json"
    /\ flight[2] = flight[1]

\* C13: when the response has a 2xx status and a body that decodes as JSON, the
\* invocation returns the decoded body of that response as it is: the same
\* fields with the same values, for an object and for an array alike.
C13_SuccessReturnsDecodedBody ==
    \A i \in Slots :
        (/\ Answered(i)
         /\ outcome[i].result.kind = "response"
         /\ IsSuccess(outcome[i].result)
         /\ outcome[i].result.body \in DecodableBodies) =>
            /\ outcome[i].delivered.kind = "return"
            /\ outcome[i].delivered.type = "json"
            /\ outcome[i].delivered.value = JsonLoads(outcome[i].result.body)

C13_Witness ==
    /\ pc[1] = "done"
    /\ call[1].binding = "get_shortcut_quote"
    /\ outcome[1].result.status_code = 200
    /\ outcome[1].delivered.kind = "return"
    /\ outcome[1].delivered.value = <<"dict", ("data" :> PyInt(1))>>

\* C14: the JSON body that post_bundle_info sends always has fromAddress,
\* routingStrategy, receiver and spender with the arguments' values; it has
\* chainId exactly when chain_id is truthy (not for 0 or None), and then
\* chainId is chain_id.
C14_BundleBody ==
    \A i \in Slots :
        (Issued(i) /\ call[i].binding = "post_bundle_info") =>
            LET a == call[i].args
                body == flight[i].json
            IN  /\ {"fromAddress", "routingStrategy", "receiver", "spender"}
                       \subseteq DOMAIN body
                /\ body["fromAddress"] = a.from_address
                /\ body["routingStrategy"] = a.routing_strategy
                /\ body["receiver"] = a.receiver
                /\ body["spender"] = a.spender
                /\ DOMAIN body \subseteq {"fromAddress", "routingStrategy",
                                          "receiver", "spender", "chainId"}
                /\ "chainId" \in DOMAIN body <=> Truthy(a.chain_id)
                /\ "chainId" \in DOMAIN body => body["chainId"] = a.chain_id
                /\ flight[i].query = EmptyDict

C14_Witness ==
    /\ pc[1] = "pending"
    /\ call[1].binding = "post_bundle_info"
    /\ call[1].args.chain_id = PyInt(0)
    /\ "chainId" \notin DOMAIN flight[1].json
    /\ "spender" \in DOMAIN flight[1].json

\* C15: a transport failure (an httpx.HTTPError that is not an HTTPStatusError)
\* reaches the caller as a raised generic Exception whose message is the
\* transport handler's prefix followed by the transport's diagnostic; a failure
\* status is dealt with by the status handler and never gets the transport
\* handler's outcome, in every binding.
C15_TransportAndStatusDisjoint ==
    \A i \in Slots :
        Answered(i) =>
            LET r == outcome[i].result
                d == outcome[i].delivered
            IN  /\ TransportFailure(r) =>
                       /\ d.kind = "raise"
                       /\ d.type = "Exception"
                       /\ d.msg = <<"An HTTP error occurred: ", r.text>>
                /\ FailureStatus(r) =>
                       /\ d.kind = "raise"
                       /\ d.msg[1] # "An HTTP error occurred: "
                       /\ d.msg[1] \in
                            {"API request failed with status code: ",
                             "'HTTPStatusError' object has no attribute 'status_code'"}

C15_Witness ==
    /\ pc[1] = "done"
    /\ call[1].binding = "post_static_ipor_info"
    /\ outcome[1].result.kind = "raise"
    /\ outcome[1].result.type = "ConnectError"
    /\ outcome[1].delivered.kind = "raise"
    /\ outcome[1].delivered.type = "Exception"
    /\ outcome[1].delivered.msg[2] = "All connection attempts failed"

\* binding b has a result of the transport on which it returns a string
CanReturnString(b) ==
    \E r \in Results : Handle(b, r).kind = "return" /\ Handle(b, r).type = "str"

\* C16: an invocation ends by returning a formatted error string only in a
\* minority of the bindings (fewer than half of them); in every other binding
\* an exception raised during the call, a JSON decoding failure included,
\* reaches the caller as a raised error.
C16_StringReturnIsMinority ==
    \A i \in Slots :
        Answered(i) =>
            LET b == call[i].binding
                d == outcome[i].delivered
            IN  /\ (d.kind = "return" /\ d.type = "str") =>
                       2 * Cardinality({c \in Bindings : CanReturnString(c)})
                           < Cardinality(Bindings)
                /\ (~CanReturnString(b) /\ TryBody(outcome[i].result).raised) =>
                       d.kind = "raise"

\* C17: in approve_wallet_token the two conditional re-assignments change
\* nothing: for all arguments the parameters of the request are the initial
\* dict {chainId, fromAddress, routingStrategy, tokenAddress, amount} with the
\* arguments' values, and the query sent is that dict rendered by the client.
C17_ApproveConditionalsDead ==
    \A i \in Slots :
        (pc[i] # "idle" /\ call[i].binding = "approve_wallet_token") =>
            LET a == call[i].args
                initial == ("chainId" :> a.chain_id)
                           @@ ("fromAddress" :> a.from_address)
                           @@ ("routingStrategy" :> a.routing_strategy)
                           @@ ("tokenAddress" :> a.token_address)
                           @@ ("amount" :> a.amount)
            IN  /\ request[i].data = initial
                /\ Issued(i) =>
                       flight[i].query =
                           [k \in DOMAIN initial |-> PrimitiveValueToStr(initial[k])]

C17_Witness ==
    /\ pc[1] = "pending"
    /\ call[1].binding = "approve_wallet_token"
    /\ call[1].args.chain_id = None
    /\ call[1].args.routing_strategy = PyStr("")
    /\ flight[1].query["chainId"] = PyStr("")
    /\ flight[1].query["routingStrategy"] = PyStr("")

\* the dict of approvals_wallet_token before its conditional blocks
ApprovalsInitial(a) ==
    ("chainId" :> a.chain_id) @@ ("fromAddress" :> a.from_address)

\* C18 as stated: in approvals_wallet_token the conditional blocks leave the
\* keys and values of the parameter set unchanged, routingStrategy being in it
\* already.
C18_ApprovalsConditionalsDead ==
    \A i \in Slots :
        (pc[i] # "idle" /\ call[i].binding = "approvals_wallet_token") =>
            /\ request[i].data = ApprovalsInitial(call[i].args)
            /\ "routingStrategy" \in DOMAIN ApprovalsInitial(call[i].args)

\* C18, amended: in approvals_wallet_token the dict built before the
\* conditional blocks has chainId and fromAddress only.  The chainId block is
\* redundant (chainId is always a key, with chain_id's value); the
\* routingStrategy block is not: routingStrategy is a key of the request
\* exactly when routing_strategy is truthy, and then has its value.
C18_ApprovalsRoutingStrategyLive ==
    \A i \in Slots :
        (pc[i] # "idle" /\ call[i].binding = "approvals_wallet_token") =>
            LET a == call[i].args
                data == request[i].data
            IN  /\ DOMAIN ApprovalsInitial(a) = {"chainId", "fromAddress"}
                /\ \A k \in DOMAIN ApprovalsInitial(a) :
                       k \in DOMAIN data /\ data[k] = ApprovalsInitial(a)[k]
                /\ DOMAIN data \subseteq {"chainId", "fromAddress", "routingStrategy"}
                /\ "routingStrategy" \in DOMAIN data <=> Truthy(a.routing_strategy)
                /\ "routingStrategy" \in DOMAIN data =>
                       data["routingStrategy"] = a.routing_strategy
                /\ Issued(i) => DOMAIN flight[i].query = DOMAIN data

C18_Witness ==
    /\ pc[1] = "pending"
    /\ call[1].binding = "approvals_wallet_token"
    /\ call[1].args.chain_id = None
    /\ call[1].args.routing_strategy = PyStr("delegate")
    /\ flight[1].query["routingStrategy"] = PyStr("delegate")
    /\ flight[1].query["chainId"] = PyStr("")

\* C19: in every binding the request descriptor (URL, headers, parameters or
\* body) is complete when the client is opened, it is what the call puts on the
\* wire, and no later step of the invocation, whichever handler runs, changes
\* the descriptor or the request that was sent.
C19_Step ==
    \A i \in Slots :
        /\ (pc[i] = "built" /\ pc'[i] = "open") =>
               /\ client[i] = "none"
               /\ flight[i] = NoFlight
               /\ request[i] = Build(call[i].binding, call[i].args)
               /\ request[i].method \in {"GET", "POST"}
               /\ request[i].url # ""
               /\ "Authorization" \in DOMAIN request[i].headers
        /\ (pc[i] = "open" /\ pc'[i] = "pending") =>
               flight'[i] = Transmit(request[i])
        /\ pc[i] \in {"built", "open", "pending", "exiting"} =>
               request'[i] = request[i]
        /\ pc[i] \in {"pending", "exiting"} =>
               flight'[i] = flight[i]

C19_RequestImmutable == [][C19_Step]_vars

C19_Witness ==
    /\ pc[1] = "done"
    /\ call[1].binding = "get_shortcut_route"
    /\ outcome[1].delivered.kind = "return"
    /\ outcome[1].delivered.type = "str"
    /\ request[1] = Build(call[1].binding, call[1].args)
    /\ flight[1] = Transmit(request[1])

====
